---------------------------- MODULE Spec2Model ----------------------------
(***************************************************************************)
(* Session hook scripts (scripts/*.ts) and the session state store         *)
(* (src/state.ts) of the session-hooks template.                           *)
(*                                                                         *)
(* Every hook script is one short-lived process: it reads one JSON         *)
(* document from stdin, runs main(), writes log text with console.error    *)
(* (stderr) and its answer with console.log(JSON.stringify(..)) (stdout);  *)
(* a rejection of main() is handled by main().catch, which logs, writes a  *)
(* fallback document and calls process.exit(1).                            *)
(***************************************************************************)
EXTENDS Integers, Sequences, FiniteSets, TLC

VARIABLES
    hook,          \* the script the host is running ("none" before the first run)
    input,         \* the document on the script's stdin
    worktree,      \* what the project looks like during the run: changed files, gate outcome
    pc,            \* position of the running script
    io,            \* the output actions of the current run, in order
    exitCode,      \* the exit code of the current run ("running" until it ends)
    fs,            \* the state files of the temp directory, by path
    stopRuns,      \* history: completed Stop runs, by session id
    blocks,        \* history: Stop runs that wrote decision "block", by session id
    calls,         \* the call of src/state.ts each caller is in, with its position
    probe,         \* a session id and the paths getStatePath makes of it
    runner         \* the quality gate runner: its pipeline, its position, what it ran

vars == <<hook, input, worktree, pc, io, exitCode, fs, stopRuns, blocks,
          calls, probe, runner>>

\* The variables of a hook script run
hookVars == <<hook, input, worktree, pc, io, exitCode, stopRuns, blocks>>

\* The variables of the callers of src/state.ts
storeVars == <<calls, probe, runner>>

-----------------------------------------------------------------------------
(* Bounds of the model *)

\* Stop runs the host starts in one behaviour
MaxRuns == 4

\* Largest denialCount a caller of saveState stores
MaxDenialCount == 3

\* Longest session id given to getStatePath, in pieces such as ".." and "/"
MaxIdPieces == 5

\* Longest pipeline of quality gates
MaxGates == 3

-----------------------------------------------------------------------------
(* scripts/Stop.ts *)

MAX_STOP_DENIALS == 3

Hooks == {"SessionStart", "UserPromptSubmit", "PreToolUse", "PostToolUse", "Stop"}

\* Session ids the host sends
SessionIds == { <<"s", "1">>, <<".", "/">> }

-----------------------------------------------------------------------------
(* src/state.ts *)

STATE_FILE_PREFIX == "session-hooks-template"

SafeChars == {"s", "1", "a", "e", "t", "c", "-", "_"}

\* Variant: the session id is used as it is
sanitize_AsIs(id) == id

\* sessionId.replace(/[^a-zA-Z0-9-_]/g, "_")
RECURSIVE sanitize(_)
sanitize(id) ==
    IF id = <<>> THEN <<>>
    ELSE <<IF Head(id) \in SafeChars THEN Head(id) ELSE "_">> \o sanitize(Tail(id))

\* tmpdir() of "os": an absolute directory, as the sequence of its segments
tmpdir == << <<"tmp">> >>

\* The segments of a path text, split at "/"
RECURSIVE Split(_, _)
Split(text, segment) ==
    IF text = <<>> THEN <<segment>>
    ELSE IF Head(text) = "/" THEN <<segment>> \o Split(Tail(text), <<>>)
    ELSE Split(Tail(text), Append(segment, Head(text)))

\* path normalisation: "" and "." are dropped, ".." leaves the directory it is in
RECURSIVE Resolve(_, _)
Resolve(path, segments) ==
    IF segments = <<>> THEN path
    ELSE LET seg == Head(segments)
         IN  IF seg = <<>> \/ seg = <<".">> THEN Resolve(path, Tail(segments))
             ELSE IF seg = <<".", ".">>
                  THEN Resolve(IF path = <<>> THEN <<>>
                               ELSE SubSeq(path, 1, Len(path) - 1), Tail(segments))
             ELSE Resolve(Append(path, seg), Tail(segments))

\* join(dir, name) of "path"
join(dir, name) == Resolve(dir, Split(name, <<>>))

\* The file name before it is joined: `${STATE_FILE_PREFIX}-${safeId}.json`
StateFileName(safeId) == <<STATE_FILE_PREFIX, "-">> \o safeId \o <<".json">>

\* join(tmpdir(), `${STATE_FILE_PREFIX}-${safeId}.json`)
getStatePath(sessionId) == join(tmpdir, StateFileName(sanitize(sessionId)))

\* `${statePath}.tmp`
tempPath(statePath) ==
    IF statePath = <<>> THEN << <<".tmp">> >>
    ELSE [statePath EXCEPT ![Len(statePath)] = @ \o <<".tmp">>]

Paths == { getStatePath(id) : id \in SessionIds }

Absent == [exists |-> FALSE]

\* The properties of a stored record, in the order JSON.stringify writes them
Keys == <<"denialCount", "promptCount", "sessionId">>

NumberKeys == {"denialCount", "promptCount"}

\* Largest number a state file holds: every caller can add one to what was saved
MaxNumber == MaxDenialCount + 2

\* The JSON text of one property value: a number in decimal, a string as it is
ValueText(k, v) == IF k \in NumberKeys THEN ToString(v) ELSE v

\* Variant: the members are written one after the other with nothing between them
RECURSIVE Members_NoComma(_, _)
Members_NoComma(state, keys) ==
    IF keys = <<>> THEN <<>>
    ELSE LET k    == Head(keys)
             rest == Members_NoComma(state, Tail(keys))
         IN  IF k \notin DOMAIN state THEN rest
             ELSE <<k, ValueText(k, state[k])>> \o rest

\* The members of the JSON text of a record: a property whose value is undefined
\* is left out, the others are separated by ","
RECURSIVE Members(_, _)
Members(state, keys) ==
    IF keys = <<>> THEN <<>>
    ELSE LET k    == Head(keys)
             rest == Members(state, Tail(keys))
         IN  IF k \notin DOMAIN state THEN rest
             ELSE IF k \notin NumberKeys /\ state[k] = "undefined" THEN rest
             ELSE <<k, ValueText(k, state[k])>>
                      \o (IF rest = <<>> THEN <<>> ELSE <<",">> \o rest)

\* JSON.stringify(state, null, 2): the text as a sequence of tokens
JSON_stringify_state(state) == <<"{">> \o Members(state, Keys) \o <<"}">>

SyntaxError == [ok |-> FALSE]

NumberTexts == { ToString(n) : n \in 0..MaxNumber }

\* The members of an object text: key, value, then "," and more members, or the end
RECURSIVE ParseMembers(_)
ParseMembers(t) ==
    IF Len(t) < 2 THEN SyntaxError
    ELSE IF \A i \in 1..Len(Keys) : Keys[i] # t[1] THEN SyntaxError
    ELSE IF t[2] \in {"{", "}", ","} THEN SyntaxError
    ELSE IF t[1] \in NumberKeys /\ t[2] \notin NumberTexts THEN SyntaxError
    ELSE LET v == IF t[1] \in NumberKeys
                  THEN CHOOSE n \in 0..MaxNumber : ToString(n) = t[2]
                  ELSE t[2]
         IN  IF Len(t) = 2 THEN [ok |-> TRUE, value |-> (t[1] :> v)]
             ELSE IF t[3] # "," THEN SyntaxError
             ELSE LET rest == ParseMembers(SubSeq(t, 4, Len(t)))
                  IN  IF ~rest.ok THEN SyntaxError
                      ELSE [ok |-> TRUE, value |-> rest.value @@ (t[1] :> v)]

\* JSON.parse(content): throws a SyntaxError on an empty, cut or overwritten text
JSON_parse(text) ==
    IF Len(text) < 2 THEN SyntaxError
    ELSE IF text[1] # "{" \/ text[Len(text)] # "}" THEN SyntaxError
    ELSE IF Len(text) = 2 THEN [ok |-> TRUE, value |-> <<>>]
    ELSE ParseMembers(SubSeq(text, 2, Len(text) - 1))

\* A state file holding the JSON text of a record; open is the set of callers
\* that have opened the file and not yet written to it
FileOf(state) ==
    [exists |-> TRUE, text |-> JSON_stringify_state(state), open |-> {}]

States == [denialCount : 0..MaxDenialCount]

FileContents == {Absent} \cup { FileOf(s) : s \in States }

\* The value null of a Promise<T | null>
null == [null |-> TRUE]

\* What getState makes of the file it finds at the state path
Decode(file) ==
    IF ~file.exists THEN null
    ELSE LET parsed == JSON_parse(file.text)
         IN  IF parsed.ok THEN parsed.value ELSE null

\* getState run on its own: null when the file does not exist or its content
\* does not decode, else the decoded record
getState(files, sessionId) == Decode(files[getStatePath(sessionId)])

\* saveState run on its own: the record ends up at the state path (temp file
\* renamed over it)
saveState(files, sessionId, state) ==
    [files EXCEPT ![getStatePath(sessionId)] = FileOf(state)]

\* clearState run on its own: unlink, errors ignored
clearState(files, sessionId) ==
    [files EXCEPT ![getStatePath(sessionId)] = Absent]

-----------------------------------------------------------------------------
(* Documents and output streams *)

\* JSON.stringify of an object: a property whose value is undefined is left out
JSON_stringify(o) ==
    [k \in {k \in DOMAIN o : o[k] # "undefined"} |-> o[k]]

\* Variant: the log line written with console.log
console_error_log(text) == [stream |-> "stdout", doc |-> [log |-> text]]

\* console.error(text)
console_error(text) == [stream |-> "stderr", doc |-> [log |-> text]]

\* console.log(JSON.stringify(output))
console_log(output) == [stream |-> "stdout", doc |-> JSON_stringify(output)]

\* src/utils.ts
blockStop(reason) == [decision |-> "block", reason |-> reason]

allowStop == [decision |-> "undefined"]

continueOutput == [continue |-> "true"]

-----------------------------------------------------------------------------
(* stdin of a hook script *)

\* Text that is not JSON: JSON.parse throws a SyntaxError
Malformed ==
    [kind |-> "malformed", session_id |-> <<>>, stop_hook_active |-> FALSE,
     prompt |-> "undefined"]

\* The JSON text null: JSON.parse returns null, destructuring it throws a TypeError
JsonNull ==
    [kind |-> "null", session_id |-> <<>>, stop_hook_active |-> FALSE,
     prompt |-> "undefined"]

Objects(ids, actives, prompts) ==
    [kind : {"object"}, session_id : ids, stop_hook_active : actives, prompt : prompts]

OneId == { <<"s", "1">> }

Inputs(h) ==
    {Malformed, JsonNull} \cup
    CASE h = "Stop"             -> Objects(SessionIds, BOOLEAN, {"undefined"})
      [] h = "UserPromptSubmit" -> Objects(OneId, {FALSE}, {"text", "undefined"})
      [] OTHER                  -> Objects(OneId, {FALSE}, {"undefined"})

\* The project during a Stop run: the changed files of the working tree and the
\* first failing, non-skipped quality gate ("none" when every gate passes)
Worktrees == [changedFiles : {<<>>, <<"a.ts">>}, failingGate : {"none", "lint"}]

NoWorktree == [changedFiles |-> <<>>, failingGate |-> "none"]

\* const input = JSON.parse(await Bun.stdin.text())
JSON_parse_throws(in) == in.kind = "malformed"

\* const { session_id, ... } = input
Destructure_throws(in) == in.kind = "null"

\* Variant: process.exit(0)
process_exit_code_0 == "0"

\* The argument of process.exit in main().catch
process_exit_code == "1"

\* What a call of main() did: the output actions it made and whether it rejected
Return(out) == [threw |-> FALSE, out |-> out]

Throw == [threw |-> TRUE, out |-> <<>>]

-----------------------------------------------------------------------------
(* scripts/Stop.ts *)

\* Variant: the stop_hook_active branch blocks like the commented-out example
StopReentrantOutput_Block == blockStop("STOP BLOCKED")

\* const output = { decision: undefined } of the stop_hook_active branch
StopReentrantOutput == [decision |-> "undefined"]

\* Variant: the "To BLOCK stopping" example is uncommented in place of the allow
StopDefaultOutput_Block == blockStop("STOP BLOCKED")

\* const output = { decision: undefined } of the default path
StopDefaultOutput == [decision |-> "undefined"]

\* Variant: the fallback of the other scripts pasted into this one
StopFallbackOutput_Continue == [continue |-> "true"]

\* console.log(JSON.stringify({ decision: undefined })) of main().catch
StopFallbackOutput == [decision |-> "undefined"]

\* Variant: main() runs a quality gate before it answers
StopMain_RunsGate(in) ==
    IF Destructure_throws(in) THEN Throw
    ELSE Return(<<[stream |-> "spawn", doc |-> [gate |-> "lint"]],
                  console_log(IF in.stop_hook_active THEN StopReentrantOutput
                                                     ELSE StopDefaultOutput)>>)

\* main() after the input was parsed
StopMain(in) ==
    IF Destructure_throws(in) THEN Throw
    ELSE IF in.stop_hook_active
         THEN Return(<<console_error("[Stop] Another hook already blocked stop, allowing through"),
                       console_log(StopReentrantOutput)>>)
         ELSE Return(<<console_error("[Stop] Stop attempt in session - allowing"),
                       console_log(StopDefaultOutput)>>)

\* Variant: the handler logs the error and exits without the console.log
StopCatch_NoOutput == <<console_error("[Stop] Error:")>>

\* main().catch
StopCatch ==
    <<console_error("[Stop] Error:"), console_log(StopFallbackOutput)>>

\* Variant: example 3 of the "YOUR LOGIC HERE" comment, its clearState call
StopMainFiles_Clear(files, in) == clearState(files, in.session_id)

\* The state files after main(): the script as shipped calls nothing of src/state.ts
StopMainFiles(files, in) == files

-----------------------------------------------------------------------------
(* scripts/SessionStart.ts *)

SessionStartOutput ==
    [continue |-> "true"] @@ ("hookSpecificOutput.hookEventName" :> "SessionStart")

SessionStartFallbackOutput == [continue |-> "true"]

SessionStartMain(in) ==
    IF Destructure_throws(in) THEN Throw
    ELSE Return(<<console_error("[SessionStart] Session started"),
                  console_log(SessionStartOutput)>>)

SessionStartCatch ==
    <<console_error("[SessionStart] Error:"), console_log(SessionStartFallbackOutput)>>

-----------------------------------------------------------------------------
(* scripts/UserPromptSubmit.ts *)

\* contextMessages is empty, so additionalContext is undefined
UserPromptSubmitOutput ==
    [continue |-> "true"]
        @@ ("hookSpecificOutput.hookEventName" :> "UserPromptSubmit")
        @@ ("hookSpecificOutput.additionalContext" :> "undefined")

\* Variant: the fallback of the Stop script pasted into this one
UserPromptSubmitFallbackOutput_Stop == [decision |-> "undefined"]

UserPromptSubmitFallbackOutput == [continue |-> "true"]

\* prompt.length of the log line throws a TypeError when the input has no prompt
UserPromptSubmitMain(in) ==
    IF Destructure_throws(in) THEN Throw
    ELSE IF in.prompt = "undefined" THEN Throw
    ELSE Return(<<console_error("[UserPromptSubmit] Received prompt"),
                  console_log(UserPromptSubmitOutput)>>)

UserPromptSubmitCatch ==
    <<console_error("[UserPromptSubmit] Error:"),
      console_log(UserPromptSubmitFallbackOutput)>>

-----------------------------------------------------------------------------
(* scripts/PreToolUse.ts *)

PreToolUseOutput ==
    [continue |-> "true"] @@ ("hookSpecificOutput.hookEventName" :> "PreToolUse")

PreToolUseFallbackOutput == [continue |-> "true"]

PreToolUseMain(in) ==
    IF Destructure_throws(in) THEN Throw
    ELSE Return(<<console_error("[PreToolUse] tool called"),
                  console_log(PreToolUseOutput)>>)

PreToolUseCatch ==
    <<console_error("[PreToolUse] Error:"), console_log(PreToolUseFallbackOutput)>>

-----------------------------------------------------------------------------
(* scripts/PostToolUse.ts *)

\* contextMessages is empty, so additionalContext is undefined
PostToolUseOutput ==
    [continue |-> "true"]
        @@ ("hookSpecificOutput.hookEventName" :> "PostToolUse")
        @@ ("hookSpecificOutput.additionalContext" :> "undefined")

PostToolUseFallbackOutput == [continue |-> "true"]

PostToolUseMain(in) ==
    IF Destructure_throws(in) THEN Throw
    ELSE Return(<<console_error("[PostToolUse] tool completed"),
                  console_log(PostToolUseOutput)>>)

PostToolUseCatch ==
    <<console_error("[PostToolUse] Error:"), console_log(PostToolUseFallbackOutput)>>

-----------------------------------------------------------------------------
(* What the host sees of a run *)

MainOf(h, in) ==
    CASE h = "Stop"             -> StopMain(in)
      [] h = "SessionStart"     -> SessionStartMain(in)
      [] h = "UserPromptSubmit" -> UserPromptSubmitMain(in)
      [] h = "PreToolUse"       -> PreToolUseMain(in)
      [] h = "PostToolUse"      -> PostToolUseMain(in)

\* main() rejects: reading the input or a later statement throws
Rejects(h, in) == JSON_parse_throws(in) \/ MainOf(h, in).threw

Stdout == SelectSeq(io, LAMBDA e : e.stream = "stdout")

\* The decision of a stdout document: "absent" allows the stop
Decision(doc) == IF "decision" \in DOMAIN doc THEN doc["decision"] ELSE "absent"

IsBlock(doc) == Decision(doc) = "block"

IsAllow(doc) == Decision(doc) = "absent" /\ "reason" \notin DOMAIN doc

WroteBlock(out) == \E i \in 1..Len(out) : out[i].stream = "stdout" /\ IsBlock(out[i].doc)

RECURSIVE Total(_, _)
Total(f, S) ==
    IF S = {} THEN 0
    ELSE LET x == CHOOSE x \in S : TRUE IN f[x] + Total(f, S \ {x})

\* The denialCount stored for a session, absent state counting as 0
DenialCount(files, id) ==
    LET state == getState(files, id) IN IF state = null THEN 0 ELSE state.denialCount

-----------------------------------------------------------------------------
(* The callers of src/state.ts *)

\* Hook processes that call the state store at the same time, one call each
Callers == {"A", "B"}

\* Session ids the callers pass: two of them differ only in unsafe characters
StoreIds == SessionIds \cup { <<"_", "_">> }

\* The state path and the temp path of every session id
StorePaths ==
    UNION { {getStatePath(id), tempPath(getStatePath(id))} : id \in StoreIds }

\* Records the callers pass to saveState: the last one has a property whose
\* value is undefined
StoreStates ==
    { [denialCount |-> 0],
      [denialCount |-> 0, promptCount |-> 0],
      [denialCount |-> 0, sessionId |-> "undefined"] }

\* A record JSON can hold: no property is undefined
WellFormed(state) ==
    \A k \in DOMAIN state : k \in NumberKeys \/ state[k] # "undefined"

\* The updater of a caller of updateState: state.denialCount++
updater(state) == [state EXCEPT !["denialCount"] = @ + 1]

\* The value of a Promise<void> that resolved
undefined == [undefined |-> TRUE]

Pending == [settled |-> FALSE]

Resolved(value) == [settled |-> TRUE, rejected |-> FALSE, value |-> value]

Rejected == [settled |-> TRUE, rejected |-> TRUE]

\* A caller that has not called yet.  The fields saw, before, interfered,
\* overlapped and fallback are history: what the call has met so far.
NoCall ==
    [op |-> "none", pc |-> "idle", id |-> <<>>, state |-> null,
     failed |-> "none", result |-> Pending, saw |-> "nothing",
     before |-> Absent, interfered |-> FALSE, overlapped |-> FALSE,
     fallback |-> "none"]

NoProbe == [id |-> <<>>, applied |-> FALSE]

\* The quality gate runner before it is given a pipeline
NoRunner ==
    [gates |-> <<>>, pc |-> "idle", i |-> 0, spawned |-> <<>>, results |-> <<>>,
     result |-> [kind |-> "pending"]]

\* Variant: the catch block of getState throws the error again
getStateCatch_Rethrow == Rejected

\* catch (error) { console.error(...); return null; } of getState
getStateCatch == Resolved(null)

\* Variant: the catch block of clearState throws the error again
clearStateCatch_Rethrow == Rejected

\* catch { } of clearState: the error is ignored
clearStateCatch == Resolved(undefined)

\* The first statement that touches the file system, by function
FirstStep(op) ==
    CASE op = "getState"    -> "exists"
      [] op = "updateState" -> "exists"
      [] op = "saveState"   -> "open_tmp"
      [] op = "clearState"  -> "unlink"

\* Variant: the target is opened without truncate, an existing file keeps its content
Open_NoTruncate(files, path, c) ==
    [files EXCEPT ![path] =
        IF @.exists THEN [@ EXCEPT !.open = @ \cup {c}]
        ELSE [exists |-> TRUE, text |-> <<>>, open |-> {c}]]

\* Bun.write opens its target with create and truncate: an existing file stays
\* the file it is and loses its content
Open(files, path, c) ==
    [files EXCEPT ![path] =
        IF @.exists THEN [@ EXCEPT !.text = <<>>, !.open = @ \cup {c}]
        ELSE [exists |-> TRUE, text |-> <<>>, open |-> {c}]]

\* Writing text at offset 0: what the file held beyond the text stays
Overwrite(old, text) == text \o SubSeq(old, Len(text) + 1, Len(old))

\* Bun.write then writes to the file it opened, wherever that file now is, and
\* closes it
WriteTo(files, c, text) ==
    [p \in DOMAIN files |->
        IF files[p].exists /\ c \in files[p].open
        THEN [files[p] EXCEPT !.text = Overwrite(@, text), !.open = @ \ {c}]
        ELSE files[p]]

\* Bun.write gives up: the file it opened is closed as it is
Close(files, c) ==
    [p \in DOMAIN files |->
        IF files[p].exists /\ c \in files[p].open
        THEN [files[p] EXCEPT !.open = @ \ {c}]
        ELSE files[p]]

\* What a reader finds in a file
Content(file) == IF file.exists THEN [exists |-> TRUE, text |-> file.text] ELSE Absent

\* fs.rename(tempPath, statePath)
Rename(files, from, to) == [files EXCEPT ![to] = files[from], ![from] = Absent]

\* fs.unlink(statePath)
Unlink(files, path) == [files EXCEPT ![path] = Absent]

-----------------------------------------------------------------------------
(* The state machine *)

Init ==
    /\ hook = "none"
    /\ input = Malformed
    /\ worktree = NoWorktree
    /\ pc = "idle"
    /\ io = <<>>
    /\ exitCode = "running"
    /\ fs = [p \in Paths |-> Absent]
    /\ stopRuns = [id \in SessionIds |-> 0]
    /\ blocks = [id \in SessionIds |-> 0]
    /\ calls = [c \in Callers |-> NoCall]
    /\ probe = NoProbe
    /\ runner = NoRunner

\* The host starts a hook script with a document on its stdin
Invoke(h, in, wt) ==
    /\ pc \in {"idle", "exited"}
    /\ (h = "Stop" /\ in.kind = "object") => Total(stopRuns, SessionIds) < MaxRuns
    /\ hook' = h
    /\ input' = in
    /\ worktree' = wt
    /\ pc' = "start"
    /\ io' = <<>>
    /\ exitCode' = "running"
    /\ UNCHANGED <<fs, stopRuns, blocks>>
    /\ UNCHANGED storeVars

\* const inputText = await Bun.stdin.text(); const input = JSON.parse(inputText)
ReadInput ==
    /\ pc = "start"
    /\ pc' = IF JSON_parse_throws(input) THEN "catch" ELSE "main"
    /\ UNCHANGED <<hook, input, worktree, io, exitCode, fs, stopRuns, blocks>>
    /\ UNCHANGED storeVars

\* The rest of main() of a script other than Stop
RunMain(h, result) ==
    /\ pc = "main"
    /\ hook = h
    /\ io' = io \o result.out
    /\ pc' = IF result.threw THEN "catch" ELSE "returned"
    /\ UNCHANGED <<hook, input, worktree, exitCode, fs, stopRuns, blocks>>
    /\ UNCHANGED storeVars

RunSessionStartMain == RunMain("SessionStart", SessionStartMain(input))

RunUserPromptSubmitMain == RunMain("UserPromptSubmit", UserPromptSubmitMain(input))

RunPreToolUseMain == RunMain("PreToolUse", PreToolUseMain(input))

RunPostToolUseMain == RunMain("PostToolUse", PostToolUseMain(input))

\* The rest of main() of scripts/Stop.ts
RunStopMain ==
    /\ pc = "main"
    /\ hook = "Stop"
    /\ LET result == StopMain(input)
       IN  /\ io' = io \o result.out
           /\ pc' = IF result.threw THEN "catch" ELSE "returned"
           /\ fs' = IF result.threw THEN fs ELSE StopMainFiles(fs, input)
           /\ stopRuns' = IF result.threw THEN stopRuns
                          ELSE [stopRuns EXCEPT ![input.session_id] = @ + 1]
           /\ blocks' = IF WroteBlock(result.out)
                        THEN [blocks EXCEPT ![input.session_id] = @ + 1]
                        ELSE blocks
    /\ UNCHANGED <<hook, input, worktree, exitCode>>
    /\ UNCHANGED storeVars

\* main().catch(...): console.error the error, console.log the fallback document
RunCatch(h, out) ==
    /\ pc = "catch"
    /\ hook = h
    /\ io' = io \o out
    /\ pc' = "handled"
    /\ UNCHANGED <<hook, input, worktree, exitCode, fs, stopRuns, blocks>>
    /\ UNCHANGED storeVars

RunStopCatch == RunCatch("Stop", StopCatch)

RunSessionStartCatch == RunCatch("SessionStart", SessionStartCatch)

RunUserPromptSubmitCatch == RunCatch("UserPromptSubmit", UserPromptSubmitCatch)

RunPreToolUseCatch == RunCatch("PreToolUse", PreToolUseCatch)

RunPostToolUseCatch == RunCatch("PostToolUse", PostToolUseCatch)

\* process.exit(1), the last statement of main().catch
CatchExit ==
    /\ pc = "handled"
    /\ exitCode' = process_exit_code
    /\ pc' = "exited"
    /\ UNCHANGED <<hook, input, worktree, io, fs, stopRuns, blocks>>
    /\ UNCHANGED storeVars

\* main() resolved: nothing is left to run and the process ends with code 0
ProcessEnd ==
    /\ pc = "returned"
    /\ exitCode' = "0"
    /\ pc' = "exited"
    /\ UNCHANGED <<hook, input, worktree, io, fs, stopRuns, blocks>>
    /\ UNCHANGED storeVars

\* Some other process calls saveState(id, state) of src/state.ts
SaveState(id, state) ==
    /\ fs' = saveState(fs, id, state)
    /\ UNCHANGED <<hook, input, worktree, pc, io, exitCode, stopRuns, blocks>>
    /\ UNCHANGED storeVars

\* Some other process calls clearState(id) of src/state.ts
ClearState(id) ==
    /\ fs' = clearState(fs, id)
    /\ UNCHANGED <<hook, input, worktree, pc, io, exitCode, stopRuns, blocks>>
    /\ UNCHANGED storeVars

Next ==
    \/ \E h \in Hooks : \E in \in Inputs(h) :
          \E wt \in (IF h = "Stop" THEN Worktrees ELSE {NoWorktree}) : Invoke(h, in, wt)
    \/ ReadInput
    \/ RunStopMain
    \/ RunSessionStartMain
    \/ RunUserPromptSubmitMain
    \/ RunPreToolUseMain
    \/ RunPostToolUseMain
    \/ RunStopCatch
    \/ RunSessionStartCatch
    \/ RunUserPromptSubmitCatch
    \/ RunPreToolUseCatch
    \/ RunPostToolUseCatch
    \/ CatchExit
    \/ ProcessEnd
    \/ \E id \in SessionIds : \E state \in States : SaveState(id, state)
    \/ \E id \in SessionIds : ClearState(id)

Spec == Init /\ [][Next]_vars

-----------------------------------------------------------------------------
(* The state machine of src/state.ts: every await is a step of its own *)

StatePathOf(c) == getStatePath(calls[c].id)

Active(c) == calls[c].pc \notin {"idle", "done"}

\* History: another caller changed the state file or the temp file of d's call
Marked(d, files) ==
    IF /\ calls[d].op # "none"
       /\ \/ Content(files[StatePathOf(d)]) # Content(fs[StatePathOf(d)])
          \/ Content(files[tempPath(StatePathOf(d))])
                 # Content(fs[tempPath(StatePathOf(d))])
    THEN [calls[d] EXCEPT !.interfered = TRUE]
    ELSE calls[d]

\* One step of caller c: its call moves on and the files become what it made them
Step(c, call, files) ==
    /\ fs' = files
    /\ calls' = [d \in Callers |-> IF d = c THEN call ELSE Marked(d, files)]
    /\ UNCHANGED <<probe, runner>>
    /\ UNCHANGED hookVars

\* The promise of the call settles
Settle(call, result) == [call EXCEPT !.pc = "done", !.result = result]

\* return state (updateState) or the end of saveState
SaveResult(call) ==
    IF call.op = "updateState" THEN Resolved(call.state) ELSE Resolved(undefined)

\* A hook process calls getState, saveState, updateState or clearState
Call(c, op, id, state) ==
    /\ calls[c].pc = "idle"
    /\ LET path == getStatePath(id)
           meets(d) == d # c /\ Active(d) /\ StatePathOf(d) = path
           new == [NoCall EXCEPT
                     !.op = op, !.pc = FirstStep(op), !.id = id, !.state = state,
                     !.before = Content(fs[path]),
                     !.overlapped = \E d \in Callers : meets(d)]
       IN  calls' = [d \in Callers |->
                        IF d = c THEN new
                        ELSE IF meets(d) THEN [calls[d] EXCEPT !.overlapped = TRUE]
                        ELSE calls[d]]
    /\ UNCHANGED <<fs, probe, runner>>
    /\ UNCHANGED hookVars

\* Variant: updateState starts a record when it finds none
FileExists_Upsert(c) ==
    /\ calls[c].pc = "exists"
    /\ Step(c, IF fs[StatePathOf(c)].exists
               THEN [calls[c] EXCEPT !.pc = "text"]
               ELSE IF calls[c].op = "updateState"
                    THEN [calls[c] EXCEPT !.saw = "absent", !.pc = "open_tmp",
                                          !.state = [denialCount |-> 1]]
               ELSE Settle([calls[c] EXCEPT !.saw = "absent"], Resolved(null)),
            fs)

\* if (!(await file.exists())) { return null; }
FileExists(c) ==
    /\ calls[c].pc = "exists"
    /\ Step(c, IF fs[StatePathOf(c)].exists
               THEN [calls[c] EXCEPT !.pc = "text"]
               ELSE Settle([calls[c] EXCEPT !.saw = "absent"], Resolved(null)),
            fs)

\* const content = await file.text(); return JSON.parse(content); in updateState
\* followed by if (!state) { return null; } updater(state);
FileText(c) ==
    /\ calls[c].pc = "text"
    /\ LET file   == fs[StatePathOf(c)]
           parsed == IF file.exists THEN JSON_parse(file.text) ELSE SyntaxError
           saw    == IF ~file.exists THEN "enoent"
                     ELSE IF parsed.ok THEN "record" ELSE "garbage"
           call   == [calls[c] EXCEPT !.saw = saw]
       IN  Step(c, IF ~parsed.ok THEN Settle(call, getStateCatch)
                   ELSE IF call.op = "getState"
                        THEN Settle(call, Resolved(parsed.value))
                   ELSE [call EXCEPT !.state = updater(parsed.value),
                                     !.pc = "open_tmp"],
                fs)

\* await file.text() fails for a reason of the device
FailRead(c) ==
    /\ calls[c].pc = "text"
    /\ Step(c, Settle([calls[c] EXCEPT !.saw = "fault"], getStateCatch), fs)

\* Variant: the first write opens the state file itself
OpenTemp_InPlace(c) ==
    /\ calls[c].pc = "open_tmp"
    /\ Step(c, [calls[c] EXCEPT !.pc = "write_tmp"], Open(fs, StatePathOf(c), c))

\* await Bun.write(tempPath, ...): the temp file is opened, created or emptied
OpenTemp(c) ==
    /\ calls[c].pc = "open_tmp"
    /\ Step(c, [calls[c] EXCEPT !.pc = "write_tmp"],
            Open(fs, tempPath(StatePathOf(c)), c))

\* await Bun.write(tempPath, JSON.stringify(state, null, 2)): the text is written
WriteTemp(c) ==
    /\ calls[c].pc = "write_tmp"
    /\ Step(c, [calls[c] EXCEPT !.pc = "rename"],
            WriteTo(fs, c, JSON_stringify_state(calls[c].state)))

\* await Bun.write(tempPath, ...) throws: the catch block takes over
FailTemp(c) ==
    /\ calls[c].pc \in {"open_tmp", "write_tmp"}
    /\ Step(c, [calls[c] EXCEPT !.pc = "open_direct", !.failed = "write_tmp"],
            Close(fs, c))

\* await fs.rename(tempPath, statePath): throws when the temp file is gone
RenameTemp(c) ==
    /\ calls[c].pc = "rename"
    /\ LET path == StatePathOf(c)
       IN  IF fs[tempPath(path)].exists
           THEN Step(c, Settle(calls[c], SaveResult(calls[c])),
                     Rename(fs, tempPath(path), path))
           ELSE Step(c, [calls[c] EXCEPT !.pc = "open_direct", !.failed = "rename"],
                     fs)

\* await fs.rename(tempPath, statePath) throws for a reason of the device
FailRename(c) ==
    /\ calls[c].pc = "rename"
    /\ Step(c, [calls[c] EXCEPT !.pc = "open_direct", !.failed = "rename"], fs)

\* catch: await Bun.write(statePath, ...): the state file is opened, created or emptied
OpenDirect(c) ==
    /\ calls[c].pc = "open_direct"
    /\ Step(c, [calls[c] EXCEPT !.pc = "write_direct"],
            Open(fs, StatePathOf(c), c))

\* catch: await Bun.write(statePath, JSON.stringify(state, null, 2)): the text is written
WriteDirect(c) ==
    /\ calls[c].pc = "write_direct"
    /\ Step(c, Settle([calls[c] EXCEPT !.fallback = "written"], SaveResult(calls[c])),
            WriteTo(fs, c, JSON_stringify_state(calls[c].state)))

\* Variant: the catch block has a try of its own and ignores the error
FailDirect_Absorbed(c) ==
    /\ calls[c].pc \in {"open_direct", "write_direct"}
    /\ Step(c, Settle([calls[c] EXCEPT !.fallback = "failed"], SaveResult(calls[c])),
            Close(fs, c))

\* catch: await Bun.write(statePath, ...) throws: saveState rejects
FailDirect(c) ==
    /\ calls[c].pc \in {"open_direct", "write_direct"}
    /\ Step(c, Settle([calls[c] EXCEPT !.fallback = "failed"], Rejected), Close(fs, c))

\* await fs.unlink(statePath): throws when there is no file, which is ignored
UnlinkFile(c) ==
    /\ calls[c].pc = "unlink"
    /\ LET path == StatePathOf(c)
       IN  IF fs[path].exists
           THEN Step(c, Settle(calls[c], Resolved(undefined)), Unlink(fs, path))
           ELSE Step(c, Settle([calls[c] EXCEPT !.saw = "enoent"], clearStateCatch), fs)

\* await fs.unlink(statePath) throws for a reason of the device, which is ignored
FailUnlink(c) ==
    /\ calls[c].pc = "unlink"
    /\ Step(c, Settle([calls[c] EXCEPT !.saw = "fault"], clearStateCatch), fs)

Ops == {"getState", "saveState", "updateState", "clearState"}

StoreInit ==
    /\ hook = "none"
    /\ input = Malformed
    /\ worktree = NoWorktree
    /\ pc = "idle"
    /\ io = <<>>
    /\ exitCode = "running"
    /\ \E file \in {Absent, FileOf([denialCount |-> 0])} :
          fs = [p \in StorePaths |->
                   IF p = getStatePath(<<"_", "_">>) THEN file ELSE Absent]
    /\ stopRuns = [id \in SessionIds |-> 0]
    /\ blocks = [id \in SessionIds |-> 0]
    /\ calls = [c \in Callers |-> NoCall]
    /\ probe = NoProbe
    /\ runner = NoRunner

\* The callers run with a file system that fails only for what is in it
StoreNext ==
    \E c \in Callers :
        \/ \E op \in Ops : \E id \in StoreIds :
              \E state \in (IF op = "saveState" THEN StoreStates ELSE {null}) :
                  Call(c, op, id, state)
        \/ FileExists(c)
        \/ FileText(c)
        \/ OpenTemp(c)
        \/ WriteTemp(c)
        \/ RenameTemp(c)
        \/ OpenDirect(c)
        \/ WriteDirect(c)
        \/ UnlinkFile(c)

StoreSpec == StoreInit /\ [][StoreNext]_vars

-----------------------------------------------------------------------------
(* getStatePath on its own *)

\* What session ids are made of
IdPieces == { <<".", ".">>, <<".">>, <<"/">>, <<"e", "t", "c">>, <<"_">> }

RECURSIVE Concat(_)
Concat(pieces) == IF pieces = <<>> THEN <<>> ELSE Head(pieces) \o Concat(Tail(pieces))

\* Session-id strings of up to MaxIdPieces pieces
IdStrings ==
    { Concat(pieces) : pieces \in UNION { [1..n -> IdPieces] : n \in 0..MaxIdPieces } }

PathInit ==
    /\ hook = "none"
    /\ input = Malformed
    /\ worktree = NoWorktree
    /\ pc = "idle"
    /\ io = <<>>
    /\ exitCode = "running"
    /\ fs = [p \in StorePaths |-> Absent]
    /\ stopRuns = [id \in SessionIds |-> 0]
    /\ blocks = [id \in SessionIds |-> 0]
    /\ calls = [c \in Callers |-> NoCall]
    /\ \E id \in IdStrings : probe = [NoProbe EXCEPT !.id = id]
    /\ runner = NoRunner

\* const statePath = getStatePath(sessionId); const tempPath = `${statePath}.tmp`
ApplyGetStatePath ==
    /\ ~probe.applied
    /\ probe' = [id        |-> probe.id,
                 applied   |-> TRUE,
                 safeId    |-> sanitize(probe.id),
                 statePath |-> getStatePath(probe.id),
                 tempPath  |-> tempPath(getStatePath(probe.id))]
    /\ UNCHANGED <<fs, calls, runner>>
    /\ UNCHANGED hookVars

PathNext == ApplyGetStatePath

PathSpec == PathInit /\ [][PathNext]_vars

-----------------------------------------------------------------------------
(* The quality gate runner *)

\* What the backing command of a gate does: it exits with success or with failure,
\* it is not registered in the project, or it cannot be spawned
GateBehaviours == {"pass", "fail", "unregistered", "spawn_error"}

\* Ordered pipelines of up to MaxGates gates; a gate is named by its position
Pipelines == UNION { [1..n -> GateBehaviours] : n \in 0..MaxGates }

\* QualityGateResult
QualityGateResult(gate, passed, skipped) ==
    [kind |-> "result", gate |-> gate, passed |-> passed, skipped |-> skipped]

\* The sentinel "all passed"
allPassed == [kind |-> "allPassed"]

\* Variant: the runner goes on to the next gate after a failing result
Halts_Never(result) == FALSE

\* The runner halts on a result with passed = false and skipped = false
Halts(result) == ~result.passed /\ ~result.skipped

GateInit ==
    /\ hook = "none"
    /\ input = Malformed
    /\ worktree = NoWorktree
    /\ pc = "idle"
    /\ io = <<>>
    /\ exitCode = "running"
    /\ fs = [p \in StorePaths |-> Absent]
    /\ stopRuns = [id \in SessionIds |-> 0]
    /\ blocks = [id \in SessionIds |-> 0]
    /\ calls = [c \in Callers |-> NoCall]
    /\ probe = NoProbe
    /\ \E gates \in Pipelines : runner = [NoRunner EXCEPT !.gates = gates]

GateStep(next) ==
    /\ runner' = next
    /\ UNCHANGED <<fs, calls, probe>>
    /\ UNCHANGED hookVars

\* run(gates) is called
RunGates ==
    /\ runner.pc = "idle"
    /\ GateStep([runner EXCEPT !.pc = "next", !.i = 1])

\* runQualityGate(gate): an unregistered gate is skipped without a spawn, any
\* other gate has its command spawned
RunQualityGate ==
    /\ runner.pc = "next"
    /\ runner.i <= Len(runner.gates)
    /\ GateStep(IF runner.gates[runner.i] = "unregistered"
                THEN [runner EXCEPT
                        !.results = Append(@, QualityGateResult(runner.i, TRUE, TRUE)),
                        !.i = @ + 1]
                ELSE [runner EXCEPT !.spawned = Append(@, runner.i), !.pc = "spawned"])

\* The spawned command has exited, or the spawn has failed: the gate has its result
GateCompletes ==
    /\ runner.pc = "spawned"
    /\ LET result == QualityGateResult(runner.i, runner.gates[runner.i] = "pass", FALSE)
       IN  GateStep(IF Halts(result)
                    THEN [runner EXCEPT !.results = Append(@, result),
                                        !.pc = "returned", !.result = result]
                    ELSE [runner EXCEPT !.results = Append(@, result),
                                        !.pc = "next", !.i = @ + 1])

\* Every gate has passed or was skipped
ReturnAllPassed ==
    /\ runner.pc = "next"
    /\ runner.i > Len(runner.gates)
    /\ GateStep([runner EXCEPT !.pc = "returned", !.result = allPassed])

GateNext == RunGates \/ RunQualityGate \/ GateCompletes \/ ReturnAllPassed

GateSpec == GateInit /\ [][GateNext]_vars

\* The callers run with a file system whose operations can also fail by themselves
StoreFaultNext ==
    \/ StoreNext
    \/ \E c \in Callers :
        \/ FailRead(c)
        \/ FailTemp(c)
        \/ FailRename(c)
        \/ FailDirect(c)
        \/ FailUnlink(c)

StoreFaultSpec == StoreInit /\ [][StoreFaultNext]_vars

-----------------------------------------------------------------------------
(* Properties of the hook scripts *)

\* main() of the running script has finished, normally or through main().catch
MainDone == pc \in {"returned", "handled", "exited"}

StopRun == hook = "Stop" /\ input.kind = "object"

\* The stdout document of allowStop(): the text {}
AllowDocument == JSON_stringify(allowStop)

\* The stdout document of continueOutput(): the text {"continue":true}
ContinueDocument == JSON_stringify(continueOutput)

GatesWouldFail == worktree.changedFiles # <<>> /\ worktree.failingGate # "none"

\* C1 (re-entrancy): a Stop run whose input has stop_hook_active = true writes
\* the allow decision (no decision, no reason), whatever denialCount is stored and
\* whatever the gates would say.
C1_ReentrantAllow ==
    (StopRun /\ input.stop_hook_active /\ MainDone)
        => (Len(Stdout) = 1 /\ IsAllow(Stdout[1].doc))

C1_Witness ==
    /\ StopRun /\ input.stop_hook_active /\ pc = "exited"
    /\ GatesWouldFail
    /\ DenialCount(fs, input.session_id) = 1
    /\ Len(Stdout) = 1 /\ IsAllow(Stdout[1].doc)

\* C2 (safety valve): a Stop run for a session whose stored denialCount is at
\* least MAX_STOP_DENIALS writes the allow decision, also when changed files exist
\* and a gate would fail.
C2_SafetyValve ==
    (StopRun /\ MainDone /\ DenialCount(fs, input.session_id) >= MAX_STOP_DENIALS)
        => (Len(Stdout) = 1 /\ IsAllow(Stdout[1].doc))

C2_Witness ==
    /\ StopRun /\ ~input.stop_hook_active /\ pc = "exited"
    /\ GatesWouldFail
    /\ DenialCount(fs, input.session_id) >= MAX_STOP_DENIALS
    /\ Len(Stdout) = 1 /\ IsAllow(Stdout[1].doc)

\* C3 (bounded blocking): over the Stop runs of one session at most
\* MAX_STOP_DENIALS write a block, and every completed run writes a block or an
\* allow, so once a session has had more than MAX_STOP_DENIALS runs one of them
\* allowed the stop.
C3_BoundedBlocking ==
    /\ \A id \in SessionIds :
          /\ blocks[id] <= MAX_STOP_DENIALS
          /\ stopRuns[id] > MAX_STOP_DENIALS => stopRuns[id] - blocks[id] >= 1
    /\ (StopRun /\ MainDone)
          => (Len(Stdout) = 1 /\ (IsAllow(Stdout[1].doc) \/ IsBlock(Stdout[1].doc)))

C3_Witness ==
    /\ StopRun /\ ~input.stop_hook_active /\ pc = "exited"
    /\ GatesWouldFail
    /\ stopRuns[input.session_id] > MAX_STOP_DENIALS
    /\ blocks[input.session_id] <= MAX_STOP_DENIALS
    /\ IsAllow(Stdout[1].doc)

\* The reasons a block of the first attempt may carry according to C4: the failing
\* gate, the attempt 1 of 5, the changed files and the gate output
ClaimedReasons == {"lint failed (attempt 1/5); changed files: a.ts; output: 2 errors"}

\* C4 (gate-failure block): a Stop run with stop_hook_active = false, no stored
\* state, a changed file and a failing gate writes decision "block" with a reason
\* naming the gate, the attempt 1 of a maximum of 5, the changed files and the
\* gate output.
C4_GateFailureBlock ==
    (/\ StopRun /\ ~input.stop_hook_active /\ pc = "exited"
     /\ getState(fs, input.session_id) = null /\ stopRuns[input.session_id] = 1
     /\ GatesWouldFail)
        => (/\ MAX_STOP_DENIALS = 5
            /\ \E reason \in ClaimedReasons :
                  Stdout = <<console_log(blockStop(reason))>>)

\* The output actions the current step added
Written == SubSeq(io', Len(io) + 1, Len(io'))

\* A step of the running Stop script (the host's Invoke and the other processes'
\* saveState and clearState are not steps of it)
StopStep == hook = "Stop" /\ pc \notin {"idle", "exited"} /\ pc' # pc

\* C5 (denial counter): a step of the Stop script that writes a block raises the
\* stored denialCount of its session by exactly 1 (absent state counting as 0),
\* and every other step of the script leaves every session's denialCount as it is.
C5_DenialCounter ==
    [][StopStep =>
          \A id \in SessionIds :
              DenialCount(fs', id) =
                  DenialCount(fs, id) +
                      (IF WroteBlock(Written) /\ id = input.session_id THEN 1 ELSE 0)]_vars

C5_Witness ==
    /\ StopRun /\ ~input.stop_hook_active /\ pc = "returned"
    /\ GatesWouldFail
    /\ DenialCount(fs, input.session_id) = 2
    /\ Len(Stdout) = 1 /\ IsAllow(Stdout[1].doc)

\* C6 (fail-open Stop): a Stop run whose main() rejects, malformed stdin included,
\* has written nothing when the handler starts, ends with exactly one stdout
\* document, an allow, and with a non-zero exit code.
C6_StopFailOpen ==
    (hook = "Stop" /\ Rejects(hook, input))
        => /\ pc = "catch" => Stdout = <<>>
           /\ pc \in {"handled", "exited"} => (Len(Stdout) = 1 /\ IsAllow(Stdout[1].doc))
           /\ pc = "exited" => exitCode = "1"

C6_Witness ==
    /\ hook = "Stop" /\ input = Malformed /\ pc = "exited"
    /\ Len(Stdout) = 1 /\ IsAllow(Stdout[1].doc)
    /\ exitCode = "1"

\* C7 (fail-open, other hooks): in SessionStart, UserPromptSubmit, PreToolUse and
\* PostToolUse a main() that rejects has written nothing, the handler writes the
\* document {continue: true}, and only then the process exits non-zero.
C7_ContinueFailOpen ==
    (hook \in Hooks \ {"Stop"} /\ Rejects(hook, input))
        => /\ pc = "catch" => Stdout = <<>>
           /\ pc \in {"handled", "exited"} =>
                 (Len(Stdout) = 1 /\ Stdout[1].doc = ContinueDocument)
           /\ exitCode # "running" => (pc = "exited" /\ exitCode = "1")

C7_Witness ==
    /\ hook = "UserPromptSubmit" /\ input.kind = "object" /\ input.prompt = "undefined"
    /\ pc = "exited" /\ exitCode = "1"
    /\ Len(Stdout) = 1 /\ Stdout[1].doc = ContinueDocument

\* C8 (one document): a run never has more than one stdout entry, no log text is
\* on stdout and every stderr entry is log text; once main() or the handler is
\* done there is exactly one stdout document and it is the last output action.
C8_OneDocument ==
    /\ Len(Stdout) <= 1
    /\ \A i \in 1..Len(io) : (io[i].stream = "stdout") <=> ("log" \notin DOMAIN io[i].doc)
    /\ (hook \in Hooks /\ MainDone)
          => (Len(Stdout) = 1 /\ io[Len(io)].stream = "stdout")

C8_Witness ==
    /\ hook = "PreToolUse" /\ input.kind = "object" /\ pc = "exited"
    /\ Len(io) = 2 /\ io[1].stream = "stderr" /\ io[2].stream = "stdout"

\* C9 (exit codes): a run ends with code 0 exactly when main() completed, with
\* code 1 exactly when main() rejected, and code 1 is set only after the handler
\* wrote its fallback document.
C9_ExitCodes ==
    /\ pc = "exited" <=> exitCode # "running"
    /\ (hook \in Hooks /\ pc = "exited") =>
          /\ exitCode \in {"0", "1"}
          /\ exitCode = "0" <=> ~Rejects(hook, input)
          /\ exitCode = "1" =>
                (Len(Stdout) = 1 /\ io[Len(io)].stream = "stdout"
                 /\ Stdout[1].doc \in {AllowDocument, ContinueDocument})

C9_Witness ==
    /\ hook = "PostToolUse" /\ input = JsonNull /\ pc = "exited" /\ exitCode = "1"
    /\ Len(Stdout) = 1

\* C10 (one allow shape): every stdout document of the Stop script that is not a
\* block is the same document, without decision and without reason, whatever
\* made the run allow; a reason comes only with decision "block".
C10_AllowShape ==
    hook = "Stop" =>
        \A i \in 1..Len(Stdout) :
            /\ "reason" \in DOMAIN Stdout[i].doc => IsBlock(Stdout[i].doc)
            /\ ~IsBlock(Stdout[i].doc) =>
                  (Stdout[i].doc = AllowDocument /\ DOMAIN Stdout[i].doc = {})

C10_Witness ==
    /\ hook = "Stop" /\ input = JsonNull /\ pc = "exited" /\ exitCode = "1"
    /\ Stdout = <<console_log(StopDefaultOutput)>>
    /\ Stdout = <<console_log(StopReentrantOutput)>>

-----------------------------------------------------------------------------
(* Properties of src/state.ts *)

\* Caller c takes a step of its call
Steps(c) == calls'[c].pc # calls[c].pc

\* Caller c takes the last step of its call
Finishes(c) == calls[c].pc # "done" /\ calls'[c].pc = "done"

Done(c, op) == calls[c].op = op /\ calls[c].pc = "done"

\* C11 (getState fails soft): a getState call resolves to null when there is no
\* file at the state path, when the content of the file does not decode and when
\* reading it fails, and to the decoded record otherwise; it never rejects, and
\* no step of it changes a file.
C11_GetStateFailsSoft ==
    [][\A c \in Callers :
          (calls'[c].op = "getState" /\ Steps(c)) =>
              /\ fs' = fs
              /\ Finishes(c) =>
                    LET file   == fs[StatePathOf(c)]
                        result == calls'[c].result
                    IN  /\ result.settled /\ ~result.rejected
                        /\ ~file.exists => result.value = null
                        /\ (file.exists /\ ~JSON_parse(file.text).ok)
                              => result.value = null
                        /\ calls'[c].saw = "fault" => result.value = null
                        /\ (file.exists /\ JSON_parse(file.text).ok
                                /\ calls'[c].saw # "fault")
                              => result.value = JSON_parse(file.text).value]_vars

\* A getState call met a file whose content does not decode and resolved to null
C11_Witness ==
    \E c \in Callers :
        /\ Done(c, "getState")
        /\ calls[c].saw = "garbage"
        /\ calls[c].result = Resolved(null)
        /\ fs[StatePathOf(c)].exists

\* The promise of caller c resolved
Completed(c) == calls[c].result.settled /\ ~calls[c].result.rejected

\* Caller b ran getState after everything that was written to its state file, and
\* its read did not fail
ReadsAfter(b) ==
    /\ Done(b, "getState")
    /\ ~calls[b].overlapped /\ ~calls[b].interfered
    /\ calls[b].saw # "fault"

\* C12 (round trip): once saveState(id, s) with a well-formed record s has
\* resolved, through the rename or through the direct write, and no other caller
\* has written to the state file of id, the file decodes to s and a getState(id)
\* that runs then resolves to s.
C12_RoundTrip ==
    \A a \in Callers :
        (Done(a, "saveState") /\ Completed(a) /\ ~calls[a].interfered
            /\ WellFormed(calls[a].state))
        => /\ getState(fs, calls[a].id) = calls[a].state
           /\ \A b \in Callers \ {a} :
                 (ReadsAfter(b) /\ calls[b].id = calls[a].id)
                     => calls[b].result = Resolved(calls[a].state)

\* saveState of a record with denialCount = 0 fell back to the direct write and a
\* later getState of the other caller returned the record
C12_Witness ==
    \E a \in Callers : \E b \in Callers \ {a} :
        /\ Done(a, "saveState") /\ Completed(a) /\ ~calls[a].interfered
        /\ calls[a].failed = "rename"
        /\ calls[a].state = [denialCount |-> 0, promptCount |-> 0]
        /\ calls[a].before = Content(FileOf([denialCount |-> 0]))
        /\ ReadsAfter(b) /\ calls[b].id = calls[a].id
        /\ calls[b].result = Resolved(calls[a].state)

\* Caller d is in saveState, or has finished it, and no other caller has written
\* to its state file or its temp file since it began
SavesAlone(d) == calls[d].op = "saveState" /\ ~calls[d].interfered

\* The file a reader finds when the record of d's call has been written in full
NewContent(d) == Content(FileOf(calls[d].state))

\* saveState writes the temp file first and renames it over the state path, so
\* that the state file holds the previous content or the new text in full, and a
\* getState that overlaps the call returns one of the two
WriteThenRename ==
    \A d \in Callers :
        (SavesAlone(d) /\ calls[d].failed = "none") =>
            /\ calls[d].pc = "rename"
                  => Content(fs[tempPath(StatePathOf(d))]) = NewContent(d)
            /\ Content(fs[StatePathOf(d)]) \in {calls[d].before, NewContent(d)}
            /\ calls[d].pc = "done" => Content(fs[StatePathOf(d)]) = NewContent(d)
            /\ \A b \in Callers \ {d} :
                  (Done(b, "getState") /\ calls[b].overlapped
                      /\ StatePathOf(b) = StatePathOf(d) /\ calls[b].saw # "fault")
                  => calls[b].result.value
                        \in {Decode(calls[d].before), Decode(NewContent(d))}

InCatch(d) == calls[d].pc \in {"open_direct", "write_direct"}

\* C13 (write, then rename), as stated: the direct write to the state path
\* happens only if the rename failed.
C13_DirectOnlyAfterRenameFailed ==
    /\ WriteThenRename
    /\ \A d \in Callers : InCatch(d) => calls[d].failed = "rename"

\* C13 (write, then rename): saveState writes the text to the temp file and
\* renames it over the state path; while it has not fallen back, the state file
\* holds the previous content or the new record in full and an overlapping
\* getState returns one of the two, never a partly written record; it writes
\* directly to the state path only if the write of the temp file or the rename
\* failed.
C13_WriteThenRename ==
    /\ WriteThenRename
    /\ \A d \in Callers : InCatch(d) => calls[d].failed \in {"write_tmp", "rename"}

\* A getState returned the previous record while the saveState of the other caller
\* had written the temp file and not yet renamed it
C13_Witness ==
    \E d \in Callers : \E b \in Callers \ {d} :
        /\ SavesAlone(d) /\ calls[d].failed = "none" /\ calls[d].pc = "rename"
        /\ calls[d].before = Content(FileOf([denialCount |-> 0]))
        /\ calls[d].state = [denialCount |-> 0, promptCount |-> 0]
        /\ Done(b, "getState") /\ calls[b].overlapped
        /\ calls[b].id = calls[d].id
        /\ calls[b].result = Resolved([denialCount |-> 0])

\* clearState never rejects, and with no file at the state path it changes nothing
ClearNeverRaises ==
    \A c \in Callers :
        calls[c].op = "clearState" =>
            /\ calls[c].result.settled => ~calls[c].result.rejected
            /\ (calls[c].pc = "done" /\ calls[c].before = Absent /\ ~calls[c].interfered)
                  => fs[StatePathOf(c)] = Absent

\* After clearState(id), under the condition given, getState(id) returns null
ClearedAfter(c, condition) ==
    (Done(c, "clearState") /\ ~calls[c].interfered /\ condition) =>
        /\ getState(fs, calls[c].id) = null
        /\ \A b \in Callers \ {c} :
              (ReadsAfter(b) /\ calls[b].id = calls[c].id)
                  => calls[b].result = Resolved(null)

DirectChild(path) ==
    /\ Len(path) = Len(tmpdir) + 1
    /\ SubSeq(path, 1, Len(tmpdir)) = tmpdir

\* C15 (sanitization): whatever the session id, with "/", "." and ".." in it or
\* not, the token in the file name has only characters of [A-Za-z0-9_-], and the
\* state path and the temp path are direct children of the temp directory.
C15_Sanitization ==
    probe.applied =>
        /\ \A i \in 1..Len(probe.safeId) : probe.safeId[i] \in SafeChars
        /\ Len(probe.safeId) = Len(probe.id)
        /\ DirectChild(probe.statePath)
        /\ DirectChild(probe.tempPath)

\* getStatePath was applied to "../../etc"
C15_Witness ==
    /\ probe.applied
    /\ probe.id = <<".", ".", "/", ".", ".", "/", "e", "t", "c">>
    /\ probe.safeId = <<"_", "_", "_", "_", "_", "_", "e", "t", "c">>
    /\ probe.statePath = tmpdir \o <<StateFileName(probe.safeId)>>

Writers == {"saveState", "updateState", "clearState"}

\* C16 (sessions are independent): two different session ids have different state
\* files, and no step of a saveState, updateState or clearState for one session id
\* changes what getState returns for another session id.
C16_SessionsIndependent ==
    [][/\ \A id1 \in StoreIds : \A id2 \in StoreIds \ {id1} :
             getStatePath(id1) # getStatePath(id2)
       /\ \A c \in Callers : \A id \in StoreIds :
             (Steps(c) /\ calls'[c].op \in Writers /\ calls'[c].id # id)
                 => getState(fs', id) = getState(fs, id)]_vars

\* C17 (updateState is atomic): when two updateState calls on the same session id
\* overlap, both find the same stored record and both increment its denialCount,
\* the record stored after both have completed has both increments.
C17_NoLostUpdate ==
    \A a \in Callers : \A b \in Callers \ {a} :
        LET base == Decode(calls[a].before)
        IN  (/\ Done(a, "updateState") /\ Done(b, "updateState")
             /\ calls[a].id = calls[b].id
             /\ calls[a].overlapped /\ calls[b].overlapped
             /\ calls[a].before = calls[b].before /\ base # null
             /\ Completed(a) /\ calls[a].result.value # null
             /\ Completed(b) /\ calls[b].result.value # null)
            => /\ getState(fs, calls[a].id) # null
               /\ DenialCount(fs, calls[a].id) = base.denialCount + 2

\* C20 (last writer wins): when two saveState calls for the same session id with
\* well-formed records r1 and r2 overlap, neither rejects, and once both have
\* completed getState returns exactly r1 or exactly r2.
C20_LastWriterWins ==
    \A a \in Callers : \A b \in Callers \ {a} :
        (/\ calls[a].op = "saveState" /\ calls[b].op = "saveState"
         /\ calls[a].id = calls[b].id
         /\ calls[a].overlapped /\ calls[b].overlapped
         /\ WellFormed(calls[a].state) /\ WellFormed(calls[b].state))
        => /\ calls[a].result.settled => ~calls[a].result.rejected
           /\ (calls[a].pc = "done" /\ calls[b].pc = "done")
                 => getState(fs, calls[a].id) \in {calls[a].state, calls[b].state}

\* Two overlapping saveState calls of different records have completed, one of
\* them through the direct write because the other had renamed the temp file, and
\* getState returns the record of the call that wrote directly
C20_Witness ==
    \E a \in Callers : \E b \in Callers \ {a} :
        /\ Done(a, "saveState") /\ Done(b, "saveState")
        /\ calls[a].id = calls[b].id
        /\ calls[a].overlapped /\ calls[b].overlapped
        /\ Completed(a) /\ Completed(b)
        /\ calls[a].failed = "rename" /\ calls[b].failed = "none"
        /\ calls[a].state = [denialCount |-> 0]
        /\ calls[b].state = [denialCount |-> 0, promptCount |-> 0]
        /\ getState(fs, calls[a].id) = calls[a].state

\* Caller c is in updateState before its if (!state) { return null; }
ReadsRecord(c) == calls[c].op = "updateState" /\ calls[c].pc \in {"exists", "text"}

\* updateState up to the updater: no step of it changes a file; with no file, a
\* content that does not decode or a read that fails it resolves to null and the
\* updater has not run; with a record it runs the updater on it and goes on to
\* save the result
UpdateReads ==
    \A c \in Callers :
        (ReadsRecord(c) /\ Steps(c)) =>
            LET file   == fs[StatePathOf(c)]
                record == /\ file.exists
                          /\ JSON_parse(file.text).ok
                          /\ calls'[c].saw # "fault"
            IN  /\ fs' = fs
                /\ Finishes(c) =>
                      (calls'[c].result = Resolved(null) /\ calls'[c].state = null)
                /\ (~file.exists \/ (calls[c].pc = "text" /\ ~record)) => Finishes(c)
                /\ (calls[c].pc = "text" /\ record) =>
                      /\ calls'[c].pc = "open_tmp"
                      /\ calls'[c].result = Pending
                      /\ calls'[c].state = updater(JSON_parse(file.text).value)

\* updateState that found a record and has resolved, with no other write to the
\* state file: it returned the updated record, the state file holds it and a
\* getState that follows returns it
UpdateSaves ==
    \A c \in Callers :
        (/\ Done(c, "updateState") /\ Completed(c)
         /\ calls[c].saw = "record" /\ ~calls[c].interfered)
        => /\ calls[c].result.value = updater(Decode(calls[c].before))
           /\ getState(fs, calls[c].id) = calls[c].result.value
           /\ \A b \in Callers \ {c} :
                 (ReadsAfter(b) /\ calls[b].id = calls[c].id)
                     => calls[b].result = calls[c].result

\* C21 (updateState): on a session with no readable record (no file, a content
\* that does not decode, a read that fails) updateState returns null, does not
\* run the updater and no step of it changes or creates a file; on a session with
\* a record it runs the updater, saves the result and returns the record that the
\* state file then holds and that a following getState returns.
C21_UpdateState == [][UpdateReads]_vars /\ []UpdateSaves

\* One updateState found no file for session "s1", returned null and created
\* none; the other incremented the stored denialCount of session "__" from 0 to 1
C21_Witness ==
    \E a \in Callers : \E b \in Callers \ {a} :
        /\ Done(a, "updateState") /\ calls[a].id = <<"s", "1">>
        /\ calls[a].saw = "absent" /\ calls[a].result = Resolved(null)
        /\ fs[StatePathOf(a)] = Absent /\ fs[tempPath(StatePathOf(a))] = Absent
        /\ Done(b, "updateState") /\ calls[b].id = <<"_", "_">>
        /\ calls[b].saw = "record" /\ ~calls[b].interfered
        /\ calls[b].before = Content(FileOf([denialCount |-> 0]))
        /\ calls[b].result = Resolved([denialCount |-> 1])
        /\ getState(fs, calls[b].id) = [denialCount |-> 1]

\* The functions that end in the statements of saveState
Savers == {"saveState", "updateState"}

\* Caller d is in the try block of saveState
InTry(d) == calls[d].pc \in {"open_tmp", "write_tmp", "rename"}

\* C22 (saveState falls back, then rejects): a saveState whose temp-file write
\* or rename fails goes on with the direct write to the state path and has not
\* rejected; the direct write is made only then, and when it succeeds with no
\* other write to the state file the file holds the record; the call (and an
\* updateState that made it) rejects exactly when the direct write failed too,
\* while getState and clearState never reject.
C22_SaveStateFallback ==
    \A d \in Callers :
        /\ calls[d].op \in Savers =>
              /\ calls[d].failed \in {"none", "write_tmp", "rename"}
              /\ InTry(d) => (calls[d].failed = "none" /\ calls[d].result = Pending)
              /\ InCatch(d) => (calls[d].failed # "none" /\ calls[d].result = Pending)
              /\ (calls[d].failed # "none" /\ ~InCatch(d))
                    => (calls[d].pc = "done" /\ calls[d].fallback # "none")
              /\ calls[d].fallback # "none"
                    => (calls[d].pc = "done" /\ calls[d].failed # "none")
              /\ calls[d].result = Rejected <=> calls[d].fallback = "failed"
              /\ (calls[d].fallback = "written" /\ ~calls[d].interfered)
                    => /\ Completed(d)
                       /\ Content(fs[StatePathOf(d)]) = NewContent(d)
        /\ calls[d].op \in {"getState", "clearState"} =>
              (calls[d].result # Rejected /\ calls[d].fallback = "none")

\* One saveState has rejected: its temp-file write failed and then its direct
\* write.  The other fell back after its rename failed and has stored its record
\* with the direct write.
C22_Witness ==
    \E a \in Callers : \E b \in Callers \ {a} :
        /\ Done(a, "saveState") /\ calls[a].failed = "write_tmp"
        /\ calls[a].fallback = "failed" /\ calls[a].result = Rejected
        /\ Done(b, "saveState") /\ calls[b].failed = "rename"
        /\ calls[b].fallback = "written" /\ calls[b].result = Resolved(undefined)
        /\ ~calls[b].interfered
        /\ calls[b].state = [denialCount |-> 0, promptCount |-> 0]
        /\ getState(fs, calls[b].id) = calls[b].state

-----------------------------------------------------------------------------
(* More properties of scripts/Stop.ts *)

\* A Stop run that neither the re-entrancy check nor the safety valve ends, with
\* no changed file in the working tree
NoChangesRun ==
    /\ StopRun /\ ~input.stop_hook_active
    /\ DenialCount(fs, input.session_id) < MAX_STOP_DENIALS
    /\ worktree.changedFiles = <<>>

\* C18 (no-op short-circuit): in a Stop run with no changed file that the earlier
\* checks let through, no step changes the denialCount of a session, everything
\* the run does is a write to stdout or stderr (no quality gate is executed), and
\* the one document it writes to stdout is the allow decision.
C18_NoChangesAllow ==
    [][(NoChangesRun /\ StopStep) =>
          /\ \A id \in SessionIds : DenialCount(fs', id) = DenialCount(fs, id)
          /\ \A i \in 1..Len(io') : io'[i].stream \in {"stdout", "stderr"}
          /\ MainDone' => (Len(Stdout') = 1 /\ IsAllow(Stdout'[1].doc))]_vars

\* A Stop run with no changed file and a stored denialCount of 1 has ended with
\* the allow decision
C18_Witness ==
    /\ NoChangesRun /\ pc = "exited" /\ exitCode = "0"
    /\ DenialCount(fs, input.session_id) = 1
    /\ Stdout = <<console_log(StopDefaultOutput)>>
    /\ IsAllow(Stdout[1].doc)

\* C23 (the Stop script as shipped): no Stop run writes decision "block": for
\* every session id, either value of stop_hook_active, an input that is not JSON
\* or not an object, and whatever the state files hold, every document on stdout
\* is the one document without decision and without reason, a finished run has
\* written exactly one, and no step of the script changes a state file or calls
\* the state store, so the answer does not depend on the store.
C23_StopNeverBlocks ==
    /\ [](/\ \A id \in SessionIds : blocks[id] = 0
          /\ hook = "Stop" =>
                /\ \A i \in 1..Len(Stdout) :
                      /\ DOMAIN Stdout[i].doc \cap {"decision", "reason"} = {}
                      /\ Stdout[i] = console_log(allowStop)
                /\ MainDone => Len(Stdout) = 1)
    /\ [][StopStep => (fs' = fs /\ calls' = calls)]_vars

\* A Stop run for session "./" with stop_hook_active = false, a changed file, a
\* failing gate and a stored denialCount of 2 has ended: it wrote the allow
\* document and the stored record is as it was
C23_Witness ==
    /\ StopRun /\ ~input.stop_hook_active /\ pc = "exited" /\ exitCode = "0"
    /\ input.session_id = <<".", "/">>
    /\ GatesWouldFail
    /\ getState(fs, input.session_id) = [denialCount |-> 2]
    /\ Stdout = <<console_log(allowStop)>>
    /\ blocks[input.session_id] = 0

-----------------------------------------------------------------------------
(* Properties of the quality gate runner *)

\* The gates whose result is failing: passed = false and skipped = false
FailingGates == { i \in 1..Len(runner.gates) : runner.gates[i] \in {"fail", "spawn_error"} }

\* The position of the first failing gate, one past the end when there is none
FirstFailing ==
    IF FailingGates = {} THEN Len(runner.gates) + 1
    ELSE CHOOSE i \in FailingGates : \A j \in FailingGates : i <= j

\* C19 (fail-fast ordering): the runner starts the gates in the configured order,
\* starts a gate only when every gate before it has its result, starts no gate
\* behind the first failing one, and returns the result of the first failing gate,
\* or "all passed" when there is none.
C19_FailFast ==
    /\ \A k \in 1..Len(runner.spawned) :
          /\ runner.spawned[k] <= FirstFailing
          /\ \A j \in 1..(k - 1) : runner.spawned[j] < runner.spawned[k]
          /\ \A g \in 1..(runner.spawned[k] - 1) :
                \E r \in 1..Len(runner.results) : runner.results[r].gate = g
    /\ \A r \in 1..Len(runner.results) : runner.results[r].gate = r
    /\ Len(runner.results) <= FirstFailing
    /\ runner.pc = "returned" =>
          /\ runner.result =
                IF FailingGates = {} THEN allPassed
                ELSE QualityGateResult(FirstFailing, FALSE, FALSE)
          /\ runner.spawned =
                SelectSeq([g \in 1..Len(runner.gates) |-> g],
                          LAMBDA g : g <= FirstFailing
                                     /\ runner.gates[g] # "unregistered")

\* The pipeline [A(pass), B(fail), C(pass)] has run: A and B were executed, C was
\* not, and the result returned is B's
C19_Witness ==
    /\ runner.gates = <<"pass", "fail", "pass">>
    /\ runner.pc = "returned"
    /\ runner.spawned = <<1, 2>>
    /\ runner.result = QualityGateResult(2, FALSE, FALSE)

=============================================================================
